---- MODULE Spec2Model ----
(***************************************************************************)
(* A model of george: the kernel classes of kernels.py (parameter vectors, *)
(* the Sum/Product algebra, the radial kernels' metric) and the GP engine  *)
(* of basic.py (compute, recompute, lnlikelihood, grad_lnlikelihood,       *)
(* predict, sample, optimize).                                             *)
(*                                                                         *)
(* Numbers.  Raw parameters are naturals 0, 1, 2, 4, ...; a log-parameter  *)
(* is the exponent k of the raw value 2^k, or NegInf for the raw value 0   *)
(* (numpy: log(0) = -inf and exp(-inf) = 0).  Exp and Log are computed, so *)
(* a round trip through them is something a check can refute.  The base 2  *)
(* stands for the base e of np.exp / np.log; float rounding is not         *)
(* modelled.  Coordinates, noise and observations are small naturals, so   *)
(* the covariance matrices of the Constant / White / DotProduct kernels    *)
(* and of their sums and products are integer matrices, and positive       *)
(* definiteness (what scipy's cholesky and cho_factor test) is decided     *)
(* exactly by Sylvester's criterion.                                       *)
(***************************************************************************)
EXTENDS Integers, Sequences, FiniteSets, TLC

(* ------------------------------ bounds -------------------------------- *)
\* the largest number of samples in a coordinate array
MaxN == 2
\* coordinates and observations are drawn from 0..MaxCoord
MaxCoord == 1
\* finite log-parameters are drawn from 0..MaxLog
MaxLog == 0
\* the largest input dimension of a radial kernel
MaxNdim == 2
\* the largest number of raw parameters of a kernel expression built by + and *
MaxPars == 4
\* the largest number of leaves of a kernel expression built by + and *
MaxLeaves == 3

\* np.log(0): the log-parameter of the raw value 0
NegInf == -1000

(* ------------------------------ numbers ------------------------------- *)
RECURSIVE Pow2(_)
Pow2(k) == IF k <= 0 THEN 1 ELSE 2 * Pow2(k - 1)

\* np.exp on one entry
Exp(v) == IF v = NegInf THEN 0 ELSE Pow2(v)

\* np.log on one entry
Log(p) == IF p = 0 THEN NegInf ELSE CHOOSE v \in 0..(MaxLog + 4) : Pow2(v) = p

ExpSeq(v) == [i \in 1..Len(v) |-> Exp(v[i])]
LogSeq(p) == [i \in 1..Len(p) |-> Log(p[i])]

LogVals == {NegInf} \cup (0..MaxLog)
RawVals == {Exp(v) : v \in LogVals}

\* all sequences over S of length lo..hi
SeqsOf(S, lo, hi) == UNION {[1..n -> S] : n \in lo..hi}

\* numpy slices s[:n] and s[n:]
Head0(s, n) == SubSeq(s, 1, IF n < Len(s) THEN n ELSE Len(s))
Tail0(s, n) == SubSeq(s, n + 1, Len(s))

(* ------------------------------ matrices ------------------------------ *)
\* ndim * (ndim + 1) // 2
Tri(n) == (n * (n + 1)) \div 2

\* position, in row-major order of the lower triangle, of entry (i, j), j <= i
LowerIdx(i, j) == (i * (i - 1)) \div 2 + j

\* RadialKernel._build_matrix: fill the lower triangle from x (one value is
\* broadcast), add the transpose, halve the diagonal
build_matrix(ndim, x) ==
  [i \in 1..ndim |-> [j \in 1..ndim |->
     LET p == IF i >= j THEN LowerIdx(i, j) ELSE LowerIdx(j, i)
     IN  IF Len(x) = 1 THEN x[1] ELSE x[p]]]

\* np.diag(d)[np.tri(ndim, dtype=bool)]: the lower triangle, row-major, of diag(d)
DiagTri(ndim, d) ==
  LET pairs == {<<i, j>> \in (1..ndim) \X (1..ndim) : j <= i}
      at(p) == CHOOSE ij \in pairs : LowerIdx(ij[1], ij[2]) = p
  IN  [p \in 1..Tri(ndim) |-> IF at(p)[1] = at(p)[2] THEN d[at(p)[1]] ELSE 0]

MatDiag(m) == [i \in 1..Len(m) |-> m[i][i]]

\* m without row 1 and column j
Minor1(m, j) ==
  [r \in 1..(Len(m) - 1) |-> [c \in 1..(Len(m) - 1) |->
     m[r + 1][IF c < j THEN c ELSE c + 1]]]

RECURSIVE Det(_)
Det(m) ==
  IF Len(m) = 0 THEN 1
  ELSE IF Len(m) = 1 THEN m[1][1]
  ELSE LET RECURSIVE Expand(_)
           Expand(j) == IF j = 0 THEN 0
                        ELSE Expand(j - 1)
                             + (IF j % 2 = 1 THEN 1 ELSE -1) * m[1][j] * Det(Minor1(m, j))
       IN  Expand(Len(m))

Leading(m, k) == [r \in 1..k |-> [c \in 1..k |-> m[r][c]]]

\* what scipy.linalg.cholesky / cho_factor need to succeed: every leading
\* principal minor is positive
PosDef(m) == \A k \in 1..Len(m) : Det(Leading(m, k)) > 0

(* ------------------------------ kernels ------------------------------- *)
(* A kernel object is a record.  A leaf holds type (its class), ndim, pars *)
(* (_pars, the raw parameters), dirty, and for the radial classes nextra,  *)
(* the flags isotropic and axis_aligned ("None", "True", "False", or       *)
(* "unset" where __init__ never sets the attribute), ngm (the number of    *)
(* gradient indicator masks in gm) and matrix.  derived names the raw      *)
(* values the cached derived state was last computed from: the metric      *)
(* matrix that _factor factors, pars[nextra] for ivar, the period for      *)
(* _omega.  A Sum or Product holds type, ndim, dirty and its children k1   *)
(* and k2.                                                                 *)
(***************************************************************************)
RadialTypes == {"ExpKernel", "ExpSquaredKernel", "Matern32Kernel",
                "Matern52Kernel", "RationalQuadraticKernel"}
OperatorTypes == {"Sum", "Product"}

IsOperator(k) == k.type \in OperatorTypes
IsRadial(k) == k.type \in RadialTypes

\* an object of class type before Kernel.__init__ has run
NewObject(type) ==
  [type |-> type, ndim |-> 1, pars |-> <<>>, dirty |-> FALSE, nextra |-> 0,
   isotropic |-> "unset", axis_aligned |-> "unset", ngm |-> 0,
   matrix |-> <<>>, derived |-> <<>>]

\* Python truthiness of a flag
Truthy(flag) == flag = "True"

\* set_pars: the hook each class runs when its raw parameters are assigned.
\* It may raise after it has changed part of the derived state.
set_pars(k, v) ==
  IF IsRadial(k) THEN
    IF k.ndim > 1 THEN
      LET x == Tail0(v, k.nextra) IN
      IF Len(x) \notin {1, Tri(k.ndim)}
      THEN [raised |-> TRUE, k |-> k]
      ELSE LET m == build_matrix(k.ndim, x) IN
           IF PosDef(m)
           THEN [raised |-> FALSE, k |-> [k EXCEPT !.matrix = m, !.derived = m]]
           ELSE [raised |-> TRUE, k |-> [k EXCEPT !.matrix = m]]
    ELSE IF Len(v) <= k.nextra
         THEN [raised |-> TRUE, k |-> k]
         ELSE [raised |-> FALSE, k |-> [k EXCEPT !.derived = <<v[k.nextra + 1]>>]]
  ELSE IF k.type = "CosineKernel" THEN
    IF Len(v) # 1 \/ v[1] = 0
    THEN [raised |-> TRUE, k |-> k]
    ELSE [raised |-> FALSE, k |-> [k EXCEPT !.derived = <<v[1]>>]]
  ELSE IF k.type = "ExpSine2Kernel" THEN
    IF Len(v) < 2
    THEN [raised |-> TRUE, k |-> k]
    ELSE [raised |-> FALSE, k |-> [k EXCEPT !.derived = <<v[2]>>]]
  ELSE [raised |-> FALSE, k |-> k]

\* Kernel.pars (setter), after set_pars has ended as h: dirty unless it raised
pars_setter_dirty(h) ==
  IF h.raised THEN h ELSE [raised |-> FALSE, k |-> [h.k EXCEPT !.dirty = TRUE]]

\* Kernel.pars (setter): _pars, then set_pars, then dirty
kernel_pars_setter(k, v) == pars_setter_dirty(set_pars([k EXCEPT !.pars = v], v))

\* RadialKernel._coerce_metric: metric is [scalar |-> np.isscalar, v |-> values]
coerce_metric(k, metric) ==
  LET n == Len(metric.v) IN
  IF metric.scalar \/ n = 1 THEN
    [raised |-> FALSE,
     pars |-> DiagTri(k.ndim, [i \in 1..k.ndim |-> metric.v[1]]),
     k |-> [k EXCEPT !.isotropic = IF @ = "None" THEN "True" ELSE @]]
  ELSE IF Truthy(k.isotropic) THEN [raised |-> TRUE, pars |-> <<>>, k |-> k]
  ELSE IF n = k.ndim THEN
    [raised |-> FALSE, pars |-> DiagTri(k.ndim, metric.v),
     k |-> [k EXCEPT !.axis_aligned = IF @ = "None" THEN "True" ELSE @]]
  ELSE IF n = Tri(k.ndim) THEN
    IF Truthy(k.axis_aligned)
    THEN [raised |-> TRUE, pars |-> <<>>, k |-> k]
    ELSE [raised |-> FALSE, pars |-> metric.v, k |-> k]
  ELSE [raised |-> TRUE, pars |-> <<>>, k |-> k]

RECURSIVE vector(_)
\* RadialKernel.vector (getter)
radial_vector(k) ==
  IF k.ndim = 1 THEN LogSeq(k.pars)
  ELSE IF Truthy(k.isotropic)
       THEN LogSeq(Head0(k.pars, k.nextra) \o <<k.matrix[1][1]>>)
  ELSE IF Truthy(k.axis_aligned)
       THEN LogSeq(Head0(k.pars, k.nextra) \o MatDiag(k.matrix))
  ELSE LogSeq(k.pars)

\* _operator.vector (getter)
operator_vector(k) == vector(k.k1) \o vector(k.k2)

\* kernel.vector
vector(k) ==
  IF IsOperator(k) THEN operator_vector(k)
  ELSE IF IsRadial(k) THEN radial_vector(k)
  ELSE LogSeq(k.pars)

\* Kernel.__len__
len(k) == Len(vector(k))

RECURSIVE pars(_)
\* _operator.pars (getter) and Kernel.pars (getter)
pars(k) == IF IsOperator(k) THEN pars(k.k1) \o pars(k.k2) ELSE k.pars

\* RadialKernel.vector (setter) for ndim > 1, after _coerce_metric ended as c
radial_vector_coerced(k, v, c) ==
  IF c.raised THEN [raised |-> TRUE, k |-> k]
  ELSE kernel_pars_setter(c.k, ExpSeq(Head0(v, k.nextra)) \o c.pars)

\* RadialKernel.vector (setter)
radial_vector_setter(k, v) ==
  IF k.ndim = 1 THEN kernel_pars_setter(k, ExpSeq(v))
  ELSE radial_vector_coerced(
         k, v, coerce_metric(k, [scalar |-> FALSE, v |-> ExpSeq(Tail0(v, k.nextra))]))

\* a setter that forwards the head of the values to k1 and never assigns k2
operator_assigned_k1_only(d, r1, r2) ==
  [raised |-> r1.raised, k |-> [d EXCEPT !.k1 = r1.k]]

\* the node d of an operator after the assignment to k1 ended as r1 and, if
\* that did not raise, the assignment to k2 as r2
operator_assigned(d, r1, r2) ==
  IF r1.raised THEN [raised |-> TRUE, k |-> [d EXCEPT !.k1 = r1.k]]
  ELSE [raised |-> r2.raised, k |-> [d EXCEPT !.k1 = r1.k, !.k2 = r2.k]]

RECURSIVE vector_setter(_, _)
\* _operator.vector (setter): dirty, then the two children, split at len(k1)
operator_vector_setter(k, v) ==
  operator_assigned([k EXCEPT !.dirty = TRUE],
                    vector_setter(k.k1, Head0(v, len(k.k1))),
                    vector_setter(k.k2, Tail0(v, len(k.k1))))

\* kernel.vector = v
vector_setter(k, v) ==
  IF IsOperator(k) THEN operator_vector_setter(k, v)
  ELSE IF IsRadial(k) THEN radial_vector_setter(k, v)
  ELSE kernel_pars_setter(k, ExpSeq(v))

RECURSIVE pars_setter(_, _)
\* _operator.pars (setter): dirty, then the two children, split at len(k1)
operator_pars_setter(k, v) ==
  operator_assigned([k EXCEPT !.dirty = TRUE],
                    pars_setter(k.k1, Head0(v, len(k.k1))),
                    pars_setter(k.k2, Tail0(v, len(k.k1))))

\* kernel.pars = v
pars_setter(k, v) ==
  IF IsOperator(k) THEN operator_pars_setter(k, v) ELSE kernel_pars_setter(k, v)

\* Kernel.__setitem__ / _operator.__setitem__ with an index array dims
\* (1-based here) and the values vals: read vector, patch it, assign it
setitem_vec(k, p, dims, vals) ==
  IF \E j \in 1..Len(dims) : dims[j] \notin 1..Len(p)
  THEN [raised |-> TRUE, k |-> k]
  ELSE vector_setter(k, [i \in 1..Len(p) |->
         IF \E j \in 1..Len(dims) : dims[j] = i
         THEN vals[CHOOSE j \in 1..Len(dims) : dims[j] = i] ELSE p[i]])

setitem(k, dims, vals) == setitem_vec(k, vector(k), dims, vals)

\* Kernel.__init__(*pars, ndim=ndim) for the classes without a metric
KernelInit(type, p, ndim) ==
  kernel_pars_setter([NewObject(type) EXCEPT !.ndim = ndim], p)

\* RadialKernel.__init__
RadialInit(type, metric, ndim, extra, axis_aligned, isotropic) ==
  IF ndim = 1
  THEN kernel_pars_setter([NewObject(type) EXCEPT !.nextra = Len(extra)],
                          extra \o metric.v)
  ELSE LET k0 == [NewObject(type) EXCEPT !.axis_aligned = axis_aligned,
                    !.isotropic = isotropic, !.nextra = Len(extra), !.ndim = ndim]
           c  == coerce_metric(k0, metric)
       IN  IF c.raised THEN [raised |-> TRUE, k |-> k0]
           ELSE LET r == kernel_pars_setter(c.k, extra \o c.pars) IN
                IF r.raised THEN r
                ELSE [raised |-> FALSE, k |-> [r.k EXCEPT !.ngm = len(r.k) - r.k.nextra]]

\* an __init__ without the comparison of the operands' ndim
operator_init_unchecked(type, k1, k2) ==
  [raised |-> FALSE, k1 |-> k1, k2 |-> k2,
   node |-> [type |-> type, ndim |-> k1.ndim, dirty |-> TRUE, k1 |-> k1, k2 |-> k2]]

\* _operator.__init__(k1, k2): the new node and the operands after the call
operator_init(type, k1, k2) ==
  IF k1.ndim # k2.ndim
  THEN [raised |-> TRUE, k1 |-> k1, k2 |-> k2]
  ELSE [raised |-> FALSE, k1 |-> k1, k2 |-> k2,
        node |-> [type |-> type, ndim |-> k1.ndim, dirty |-> TRUE, k1 |-> k1, k2 |-> k2]]

\* np.sqrt(np.abs(float(b))) for the scalars used here (perfect squares)
SqrtAbs(b) == CHOOSE r \in 0..4 : r * r = (IF b < 0 THEN -b ELSE b)

\* Kernel.__add__ / __radd__ (type "Sum") and __mul__ / __rmul__ (type
\* "Product"): b is [scalar |-> TRUE, val |-> number] or [scalar |-> FALSE, k |-> kernel]
combine(type, self, b) ==
  IF b.scalar
  THEN LET c == KernelInit("ConstantKernel", <<SqrtAbs(b.val)>>, self.ndim).k
           r == operator_init(type, c, self)
       IN  [raised |-> r.raised, node |-> r.node, self |-> r.k2, other |-> r.k1]
  ELSE LET r == operator_init(type, self, b.k) IN
       IF r.raised THEN [raised |-> TRUE, self |-> r.k1, other |-> r.k2]
       ELSE [raised |-> FALSE, node |-> r.node, self |-> r.k1, other |-> r.k2]

(* ------------------------ gradient and evaluation --------------------- *)
(* The slices of a gradient are modelled by what each is the derivative    *)
(* of: [node |-> the path of the leaf in the expression (1 for k1, 2 for   *)
(* k2), par |-> i] for the derivative with respect to entry i of that      *)
(* leaf's vector, and par |-> 0 for a slice that is the derivative of no   *)
(* parameter (DotProductKernel's slice of zeros, a slice np.empty left     *)
(* unwritten).                                                             *)
(***************************************************************************)
Slice(path, i) == [node |-> path, par |-> i]

\* RadialKernel.grad: len(gm) + nextra slices if ndim > 1, len(self) if not
radial_grad(k, path) ==
  IF k.ndim > 1
  THEN [i \in 1..(k.ngm + k.nextra) |-> Slice(path, i)]
  ELSE [i \in 1..len(k) |-> IF i <= k.nextra + 1 THEN Slice(path, i) ELSE Slice(path, 0)]

\* grad of the classes without a metric
leaf_grad(k, path) ==
  IF k.type = "DotProductKernel" THEN <<Slice(path, 0)>>
  ELSE IF k.type = "ExpSine2Kernel" THEN <<Slice(path, 1), Slice(path, 2)>>
  ELSE <<Slice(path, 1)>>

RECURSIVE grad(_, _)
\* Sum.grad / Product.grad: np.concatenate((g1, g2), axis=0)
operator_grad(k, path) == grad(k.k1, path \o <<1>>) \o grad(k.k2, path \o <<2>>)

\* kernel.grad(x1, x2), by slice
grad(k, path) ==
  IF IsOperator(k) THEN operator_grad(k, path)
  ELSE IF IsRadial(k) THEN radial_grad(k, path)
  ELSE leaf_grad(k, path)

RECURSIVE VectorEntries(_, _)
\* the entries of kernel.vector, named the same way
VectorEntries(k, path) ==
  IF IsOperator(k)
  THEN VectorEntries(k.k1, path \o <<1>>) \o VectorEntries(k.k2, path \o <<2>>)
  ELSE [i \in 1..len(k) |-> Slice(path, i)]

\* np.sum((x1 - x2) ** 2) and np.sum(x1 * x2) for two points
SqDist(a, b) ==
  LET RECURSIVE S(_)
      S(c) == IF c = 0 THEN 0 ELSE S(c - 1) + (a[c] - b[c]) * (a[c] - b[c])
  IN  S(Len(a))
Dot(a, b) ==
  LET RECURSIVE S(_)
      S(c) == IF c = 0 THEN 0 ELSE S(c - 1) + a[c] * b[c]
  IN  S(Len(a))

\* kernel values are fixed-point numbers: the integer v stands for v / Unit
Unit == 100

\* Matern32Kernel.get_value(r) at r = q / tau, q the squared distance and tau
\* the metric ivar was computed from: (1 + sqrt(3 r)) exp(-sqrt(3 r)), rounded
\* to the unit, for the distances and metrics used here
matern32_value(q, tau) ==
  IF q = 0 THEN Unit
  ELSE CASE tau = 1 -> (CASE q = 1 -> 48 [] q = 4 -> 14 [] q = 9 -> 3)
         [] tau = 2 -> (CASE q = 1 -> 65 [] q = 4 -> 30 [] q = 9 -> 12)
         [] tau = 4 -> (CASE q = 1 -> 78 [] q = 4 -> 48 [] q = 9 -> 27)

\* a white kernel that compares the first component of the points only
white_value_first_component(k, a, b) ==
  Unit * k.pars[1] * k.pars[1] * (IF a[1] = b[1] THEN 1 ELSE 0)

\* WhiteKernel.__call__ at one pair of points: c ** 2 where d == 0.0
white_value(k, a, b) ==
  Unit * k.pars[1] * k.pars[1] * (IF SqDist(a, b) = 0 THEN 1 ELSE 0)

RECURSIVE value(_, _, _)
\* kernel(x1, x2) at one pair of points, for ConstantKernel, WhiteKernel,
\* DotProductKernel, the 1-D Matern32Kernel, Sum and Product
value(k, a, b) ==
  IF k.type = "Sum" THEN value(k.k1, a, b) + value(k.k2, a, b)
  ELSE IF k.type = "Product" THEN (value(k.k1, a, b) * value(k.k2, a, b)) \div Unit
  ELSE IF k.type = "ConstantKernel" THEN Unit * k.pars[1] * k.pars[1]
  ELSE IF k.type = "WhiteKernel" THEN white_value(k, a, b)
  ELSE IF k.type = "Matern32Kernel"
       THEN matern32_value((a[1] - b[1]) * (a[1] - b[1]), k.derived[1])
  ELSE CASE k.type = "DotProductKernel" -> Unit * Dot(a, b)

\* kernel.__call__(x1, x2)
call(k, x1, x2) == [i \in 1..Len(x1) |-> [j \in 1..Len(x2) |-> value(k, x1[i], x2[j])]]

\* ConstantKernel.grad, WhiteKernel.grad and DotProductKernel.grad at one
\* pair of points: the slices' values
leaf_grad_value(k, a, b) ==
  IF k.type = "ConstantKernel" THEN <<2 * Unit * k.pars[1] * k.pars[1]>>
  ELSE IF k.type = "WhiteKernel" THEN <<2 * white_value(k, a, b)>>
  ELSE CASE k.type = "DotProductKernel" -> <<0>>

\* g * k(x1, x2)[s]: every slice of g times the value v
Scaled(g, v) == [i \in 1..Len(g) |-> (g[i] * v) \div Unit]

RECURSIVE grad_value(_, _, _)
\* a gradient that concatenates the children's slices for a Product as well
operator_grad_value_concatenated(k, a, b) ==
  grad_value(k.k1, a, b) \o grad_value(k.k2, a, b)

\* Sum.grad and Product.grad at one pair of points
operator_grad_value(k, a, b) ==
  IF k.type = "Sum" THEN grad_value(k.k1, a, b) \o grad_value(k.k2, a, b)
  ELSE Scaled(grad_value(k.k1, a, b), value(k.k2, a, b))
       \o Scaled(grad_value(k.k2, a, b), value(k.k1, a, b))

\* kernel.grad(x1, x2) at one pair of points, for ConstantKernel, WhiteKernel,
\* DotProductKernel, Sum and Product
grad_value(k, a, b) ==
  IF IsOperator(k) THEN operator_grad_value(k, a, b) ELSE leaf_grad_value(k, a, b)

(* ------------------------------ GP engine ----------------------------- *)
(* The engine is a record: computed (_computed), x (_x, a sequence of      *)
(* points, each a tuple of ndim coordinates), inds (the permutation,       *)
(* 1-based), yerr (_yerr), factor (_factor) and const (_const), with hasx, *)
(* hasyerr and hasfactor telling whether the attribute exists yet, and     *)
(* mean (the value of the constant mean).  The Cholesky factor of a        *)
(* positive-definite matrix K is unique, so factor is modelled as          *)
(* [chol |-> K], and const, a function of the factor's diagonal and of n,  *)
(* as [logdet |-> K].                                                      *)
(* A coordinate array t is [nd |-> its number of axes, data |-> its rows]:  *)
(* a 1-D array holds rows of one number each.  A noise argument is         *)
(* [scalar |-> TRUE, v |-> <<value>>] or [scalar |-> FALSE, v |-> values]. *)
(***************************************************************************)
\* GP.__init__ with mean=None
GPInit ==
  [computed |-> FALSE, hasx |-> FALSE, x |-> <<>>, inds |-> <<>>,
   hasyerr |-> FALSE, yerr |-> <<>>, hasfactor |-> FALSE, factor |-> <<>>,
   const |-> <<>>, mean |-> 0]

\* GP.computed (getter)
computed(g, k) == g.computed /\ ~k.dirty

\* a setter that stores _computed and leaves the kernel's dirty flag alone
computed_setter_keeps_dirty(g, k, v) ==
  [gp |-> [g EXCEPT !.computed = v], kernel |-> k]

\* GP.computed (setter): returns the engine and its kernel
computed_setter(g, k, v) ==
  [gp |-> [g EXCEPT !.computed = v],
   kernel |-> IF v THEN [k EXCEPT !.dirty = FALSE] ELSE k]

arange(n) == [i \in 1..n |-> i]

Perms(n) == {p \in [1..n -> 1..n] : \A i, j \in 1..n : i # j => p[i] # p[j]}

\* np.argsort of a short array (insertion sort: ties keep their order)
argsort(keys) ==
  CHOOSE p \in Perms(Len(keys)) :
    \A i, j \in 1..Len(keys) :
      i < j => \/ keys[p[i]] < keys[p[j]]
               \/ (keys[p[i]] = keys[p[j]] /\ p[i] < p[j])

\* utils.nd_sort_samples: by increasing distance from the first sample
nd_sort_samples(rows) == argsort([i \in 1..Len(rows) |-> SqDist(rows[i], rows[1])])

\* GP.parse_samples, once the order inds is known
parse_sorted(k, pts, inds) ==
  IF Len(pts[1]) # k.ndim
  THEN [raised |-> TRUE, x |-> <<>>, inds |-> <<>>]
  ELSE [raised |-> FALSE, x |-> [j \in 1..Len(pts) |-> pts[inds[j]]], inds |-> inds]

\* GP.parse_samples
parse_samples(k, t, sort) ==
  parse_sorted(k, t.data,
               IF ~sort THEN arange(Len(t.data))
               ELSE IF t.nd = 1 THEN argsort([i \in 1..Len(t.data) |-> t.data[i][1]])
               ELSE nd_sort_samples(t.data))

\* GP._check_dimensions: does it raise on y
check_dimensions_raises(g, y) == Len(y) # Len(g.x)

\* the matrix GP._do_compute factors: kernel(_x, _x) with _yerr ** 2 on the diagonal
Covariance(k, x, yerr) ==
  [i \in 1..Len(x) |-> [j \in 1..Len(x) |->
     value(k, x[i], x[j]) + (IF i = j THEN Unit * yerr[i] * yerr[i] ELSE 0)]]

\* GP._do_compute, once the matrix K is built: cho_factor, _const, computed
do_compute_factor(g, k, K) ==
  IF ~PosDef(K)
  THEN [raised |-> TRUE, failed |-> TRUE, gp |-> g, kernel |-> k]
  ELSE [raised |-> FALSE, failed |-> FALSE,
        gp |-> computed_setter([g EXCEPT !.hasfactor = TRUE, !.factor = [chol |-> K],
                                         !.const = [logdet |-> K]], k, TRUE).gp,
        kernel |-> computed_setter(g, k, TRUE).kernel]

\* GP._do_compute
do_compute(g, k) == do_compute_factor(g, k, Covariance(k, g.x, g.yerr))

\* GP.compute, after _x and inds are assigned (g1): _yerr, then _do_compute
compute_yerr(g1, k, yerr) ==
  IF yerr.scalar \/ Len(yerr.v) = 1
  THEN do_compute([g1 EXCEPT !.hasyerr = TRUE,
                     !.yerr = [i \in 1..Len(g1.x) |-> yerr.v[1]]], k)
  ELSE IF check_dimensions_raises(g1, yerr.v)
  THEN [raised |-> TRUE, failed |-> FALSE, gp |-> g1, kernel |-> k]
  ELSE do_compute([g1 EXCEPT !.hasyerr = TRUE,
                     !.yerr = [j \in 1..Len(g1.x) |-> yerr.v[g1.inds[j]]]], k)

\* GP.compute, after parse_samples ended as ps
compute_parsed(g, k, yerr, ps) ==
  IF ps.raised THEN [raised |-> TRUE, failed |-> FALSE, gp |-> g, kernel |-> k]
  ELSE compute_yerr([g EXCEPT !.hasx = TRUE, !.x = ps.x, !.inds = ps.inds], k, yerr)

\* GP.compute
compute(g, k, x, yerr, sort) == compute_parsed(g, k, yerr, parse_samples(k, x, sort))

\* GP.recompute, after its compute call ended as c: inds is restored only
\* when that call returned
recompute_computed(c, initial_order, quiet) ==
  IF c.raised
  THEN [raised |-> ~quiet, value |-> FALSE, failed |-> c.failed,
        factorized |-> FALSE, gp |-> c.gp, kernel |-> c.kernel]
  ELSE [raised |-> FALSE, value |-> TRUE, failed |-> FALSE, factorized |-> TRUE,
        gp |-> [c.gp EXCEPT !.inds = initial_order], kernel |-> c.kernel]

\* a recompute that does not look at gp.computed
recompute_always(g, k, quiet) ==
  IF ~(g.hasx /\ g.hasyerr)
  THEN [raised |-> TRUE, value |-> FALSE, failed |-> FALSE, factorized |-> FALSE,
        gp |-> g, kernel |-> k]
  ELSE recompute_computed(compute(g, k, [nd |-> 2, data |-> g.x],
                                  [scalar |-> FALSE, v |-> g.yerr], FALSE),
                          g.inds, quiet)

\* GP.recompute: value is what it returns; factorized tells whether it ran
\* _do_compute to the end
recompute(g, k, quiet) ==
  IF computed(g, k)
  THEN [raised |-> FALSE, value |-> TRUE, failed |-> FALSE, factorized |-> FALSE,
        gp |-> g, kernel |-> k]
  ELSE IF ~(g.hasx /\ g.hasyerr)
  THEN [raised |-> TRUE, value |-> FALSE, failed |-> FALSE, factorized |-> FALSE,
        gp |-> g, kernel |-> k]
  ELSE recompute_computed(compute(g, k, [nd |-> 2, data |-> g.x],
                                  [scalar |-> FALSE, v |-> g.yerr], FALSE),
                          g.inds, quiet)

\* an observation so large that the quadratic form overflows (about 1e200)
Huge == 1000000

\* y[inds] - mean(_x)
Residual(g, y) == [j \in 1..Len(g.x) |-> y[g.inds[j]] - g.mean]

\* np.isfinite of GP._compute_lnlike(r)
FiniteLnlike(r) == \A j \in 1..Len(r) : r[j] < Huge

\* the outcome of a call that began with the recompute rc: out says what
\* kind of result it is and res is the result
Outcome(rc, raised, out, res) ==
  [raised |-> raised, out |-> out, res |-> res, failed |-> rc.failed,
   factorized |-> rc.factorized, gp |-> rc.gp, kernel |-> rc.kernel]

\* GP.lnlikelihood: out is "-inf", or "finite" with res naming the constant,
\* the factor and the residual the likelihood is computed from
lnlikelihood_recomputed(rc, y) ==
  IF rc.raised THEN Outcome(rc, TRUE, "raised", <<>>)
  ELSE IF ~rc.value THEN Outcome(rc, FALSE, "-inf", <<>>)
  ELSE IF check_dimensions_raises(rc.gp, y) THEN Outcome(rc, TRUE, "raised", <<>>)
  ELSE IF FiniteLnlike(Residual(rc.gp, y))
  THEN Outcome(rc, FALSE, "finite",
               [const |-> rc.gp.const, factor |-> rc.gp.factor,
                r |-> Residual(rc.gp, y)])
  ELSE Outcome(rc, FALSE, "-inf", <<>>)

lnlikelihood(g, k, y, quiet) == lnlikelihood_recomputed(recompute(g, k, quiet), y)

\* grad[dims]: dims is [kind |-> "mask", v |-> booleans, written 1 and 0] or
\* [kind |-> "index", v |-> positions]; numpy raises on a mask of another
\* length than the array and on a position outside it
SelectRaises(s, dims) ==
  IF dims.kind = "mask" THEN Len(dims.v) # Len(s)
  ELSE \E j \in 1..Len(dims.v) : dims.v[j] \notin 1..Len(s)

RECURSIVE MaskSelect(_, _, _)
MaskSelect(s, m, i) ==
  IF i > Len(s) THEN <<>>
  ELSE (IF m[i] = 1 THEN <<s[i]>> ELSE <<>>) \o MaskSelect(s, m, i + 1)

Select(s, dims) ==
  IF dims.kind = "mask" THEN MaskSelect(s, dims.v, 1)
  ELSE [j \in 1..Len(dims.v) |-> s[dims.v[j]]]

\* dims=None: np.ones(len(self.kernel), dtype=bool)
DefaultDims(k) == [kind |-> "mask", v |-> [i \in 1..len(k) |-> 1]]

\* GP.grad_lnlikelihood: out is "zeros" with res the vector of zeros
\* (np.zeros_like(dims)), or "gradient" with res holding, per component, the
\* slice of the kernel gradient it is computed from
grad_recomputed(rc, y, dims) ==
  IF rc.raised THEN Outcome(rc, TRUE, "raised", <<>>)
  ELSE IF ~rc.value
  THEN Outcome(rc, FALSE, "zeros", [i \in 1..Len(dims.v) |-> 0])
  ELSE IF check_dimensions_raises(rc.gp, y) \/ SelectRaises(grad(rc.kernel, <<>>), dims)
  THEN Outcome(rc, TRUE, "raised", <<>>)
  ELSE Outcome(rc, FALSE, "gradient",
               [factor |-> rc.gp.factor, r |-> Residual(rc.gp, y),
                slices |-> Select(grad(rc.kernel, <<>>), dims)])

grad_lnlikelihood(g, k, y, dimsOrNone, quiet) ==
  grad_recomputed(recompute(g, k, quiet), y,
                  IF dimsOrNone.kind = "none" THEN DefaultDims(k) ELSE dimsOrNone)

\* GP.predict: res names what (mu, cov) is computed from
predict_recomputed(rc, y, t) ==
  IF rc.raised THEN Outcome(rc, TRUE, "raised", <<>>)
  ELSE IF check_dimensions_raises(rc.gp, y) \/ parse_samples(rc.kernel, t, FALSE).raised
  THEN Outcome(rc, TRUE, "raised", <<>>)
  ELSE Outcome(rc, FALSE, "prediction",
               [factor |-> rc.gp.factor, r |-> Residual(rc.gp, y),
                xs |-> parse_samples(rc.kernel, t, FALSE).x])

predict(g, k, y, t) == predict_recomputed(recompute(g, k, FALSE), y, t)

\* GP.sample(t=None, size=1): the draw that column j of the factor generates
\* belongs to the stored point x[j]; res[i] is the point whose draw is
\* returned at position i (results[:, inds] = samples)
sample_recomputed(rc) ==
  IF rc.raised THEN Outcome(rc, TRUE, "raised", <<>>)
  ELSE Outcome(rc, FALSE, "samples",
               [i \in 1..Len(rc.gp.x) |->
                  rc.gp.x[CHOOSE j \in 1..Len(rc.gp.x) : rc.gp.inds[j] = i]])

sample(g, k) == sample_recomputed(recompute(g, k, FALSE))

\* GP.optimize: dims = np.arange(len(self.kernel))[dims], positions from 1
arange_dims(k, dims) ==
  IF SelectRaises(arange(len(k)), dims) THEN [raised |-> TRUE, v |-> <<>>]
  ELSE [raised |-> FALSE, v |-> Select(arange(len(k)), dims)]

optimize_dims(k, dimsOrNone) ==
  arange_dims(k, IF dimsOrNone.kind = "none" THEN DefaultDims(k) ELSE dimsOrNone)

\* kernel.vector[dims] for the positions dims
Indexed(k, dims) == [j \in 1..Len(dims) |-> vector(k)[dims[j]]]

\* the objective of GP.optimize: out is "1e25" or "-ll" with res naming what
\* the likelihood is computed from
nll_value(o) ==
  [o EXCEPT !.out = IF o.raised THEN "raised"
                    ELSE IF o.out = "-inf" THEN "1e25" ELSE "-ll"]

\* the objective, after self.kernel[dims] = pars ended as s
nll_assigned(g, s, y) ==
  IF s.raised
  THEN [raised |-> TRUE, out |-> "raised", res |-> <<>>, failed |-> FALSE,
        factorized |-> FALSE, gp |-> g, kernel |-> s.k]
  ELSE nll_value(lnlikelihood(g, s.k, y, TRUE))

nll(g, k, y, dims, p) == nll_assigned(g, setitem(k, dims, p), y)

\* the gradient of GP.optimize: out is "zeros" or "-gradient"
grad_nll_value(o) ==
  [o EXCEPT !.out = IF o.raised THEN "raised"
                    ELSE IF o.out = "zeros" THEN "zeros" ELSE "-gradient"]

\* the gradient, after self.kernel[dims] = pars ended as s
grad_nll_assigned(g, s, y, dims) ==
  IF s.raised
  THEN [raised |-> TRUE, out |-> "raised", res |-> <<>>, failed |-> FALSE,
        factorized |-> FALSE, gp |-> g, kernel |-> s.k]
  ELSE grad_nll_value(grad_lnlikelihood(g, s.k, y, [kind |-> "index", v |-> dims], TRUE))

grad_nll(g, k, y, dims, p) == grad_nll_assigned(g, setitem(k, dims, p), y, dims)

(***************************************************************************)
(* The state.  kernel: the kernel object (the engine's gp.kernel); gp: the *)
(* engine; hist: when the last compute call returned (computeok), the      *)
(* permutation that sorted its input (perm: stored point j is input point  *)
(* perm[j]) and its sort argument, and whether a parameter was assigned    *)
(* since the last completed factorization (stale); opt: the state of an    *)
(* optimize call (pc: idle, minimize while scipy's minimizer runs, done or *)
(* raised; y and dims: its arguments; xk: the minimizer's current iterate, *)
(* which becomes results.x; evaluated: the minimizer has called nll or     *)
(* grad_nll; pars: the first value optimize returns); gp2: a second engine *)
(* constructed over the same kernel object.                                *)
(***************************************************************************)
VARIABLES kernel, gp, hist, opt, gp2

vars == <<kernel, gp, hist, opt, gp2>>

NoDims == [kind |-> "none", v |-> <<>>]

HistInit == [perm |-> <<>>, sort |-> FALSE, computeok |-> FALSE, stale |-> FALSE]

OptIdle ==
  [pc |-> "idle", y |-> <<>>, dims |-> <<>>, xk |-> <<>>, evaluated |-> FALSE,
   pars |-> <<>>]

\* the inputs: 1-D arrays of distinct coordinates and one 2-D array of two
\* columns
Coords == 0..MaxCoord
Distinct(d) == \A i, j \in 1..Len(d) : i # j => d[i] # d[j]
XArrays ==
  {[nd |-> 1, data |-> d] : d \in {e \in SeqsOf({<<c>> : c \in Coords}, 1, MaxN) : Distinct(e)}}
  \cup {[nd |-> 2, data |-> <<<<0, 1>>>>]}
\* noise: the scalar 0 and the vectors <<0, 1, ...>> of 2..MaxN entries
YerrArgs ==
  {[scalar |-> TRUE, v |-> <<0>>]}
  \cup {[scalar |-> FALSE, v |-> [i \in 1..n |-> i - 1]] : n \in 2..MaxN}
\* observations: <<0, 1, ...>> of 1..MaxN entries, and those of MaxN entries
\* with a first entry that overflows
YArrays ==
  {[i \in 1..n |-> i - 1] : n \in 1..MaxN}
  \cup {[i \in 1..MaxN |-> IF i = 1 THEN Huge ELSE i - 1]}
\* the coordinates to predict at: one 1-D point, one row of two columns
TArrays == {[nd |-> 1, data |-> <<<<0>>>>], [nd |-> 2, data |-> <<<<0, 1>>>>]}
DimsArgs(k) ==
  {NoDims}
  \cup {[kind |-> "mask", v |-> m] : m \in [1..len(k) -> 0..1]}
  \cup {[kind |-> "index", v |-> <<i>>] : i \in 1..len(k)}

\* the engine's kernel: WhiteKernel(1.0) + 1.0
White1 == KernelInit("WhiteKernel", <<1>>, 1).k
EngineKernel == combine("Sum", White1, [scalar |-> TRUE, val |-> 1]).node

Init ==
  /\ kernel = EngineKernel
  /\ gp = GPInit
  /\ hist = HistInit
  /\ opt = OptIdle
  /\ gp2 = GPInit

(* ------------------------------ the calls ----------------------------- *)
\* the record of the compute call with the outcome c
ComputeHist(c, sort) ==
  IF c.raised THEN [HistInit EXCEPT !.stale = hist.stale]
  ELSE [perm |-> c.gp.inds, sort |-> sort, computeok |-> TRUE, stale |-> FALSE]

\* gp.compute(x, yerr, sort)
Computed(c, sort) ==
  /\ gp' = c.gp
  /\ kernel' = c.kernel
  /\ hist' = ComputeHist(c, sort)
  /\ UNCHANGED <<opt, gp2>>

Compute(x, yerr, sort) == Computed(compute(gp, kernel, x, yerr, sort), sort)

\* the record of an assignment to the kernel
Assigned ==
  /\ hist' = [hist EXCEPT !.stale = TRUE]
  /\ UNCHANGED <<gp, opt, gp2>>

\* gp.kernel.vector = v
AssignVector(v) == kernel' = vector_setter(kernel, v).k /\ Assigned

\* gp.kernel.pars = v
AssignPars(v) == kernel' = pars_setter(kernel, v).k /\ Assigned

\* gp.kernel[i] = v
AssignItem(i, v) == kernel' = setitem(kernel, <<i>>, <<v>>).k /\ Assigned

\* gp.kernel.k1.vector = v, gp.kernel.k2.vector = v
AssignChild(c, v) ==
  /\ IsOperator(kernel)
  /\ Len(v) = len(IF c = 1 THEN kernel.k1 ELSE kernel.k2)
  /\ kernel' = IF c = 1 THEN [kernel EXCEPT !.k1 = vector_setter(kernel.k1, v).k]
                ELSE [kernel EXCEPT !.k2 = vector_setter(kernel.k2, v).k]
  /\ Assigned

\* the effect of a call that begins with recompute
Called(o) ==
  /\ gp' = o.gp
  /\ kernel' = o.kernel
  /\ hist' = [hist EXCEPT !.stale = @ /\ ~o.factorized]
  /\ UNCHANGED <<opt, gp2>>

\* gp.recompute(quiet), with its outcome
RecomputeOutcome(rc) ==
  Outcome(rc, rc.raised,
          IF rc.raised THEN "raised" ELSE IF rc.value THEN "True" ELSE "False", <<>>)

Recomputed(g, k, quiet) == RecomputeOutcome(recompute(g, k, quiet))

Recompute(quiet) == Called(Recomputed(gp, kernel, quiet))

\* gp.lnlikelihood(y, quiet)
LnLikelihood(y, quiet) ==
Called(lnlikelihood(gp, kernel, y, quiet))

\* gp.grad_lnlikelihood(y, dims, quiet)
GradLnLikelihood(y, dims, quiet) ==
  Called(grad_lnlikelihood(gp, kernel, y, dims, quiet))

\* gp.predict(y, t)
Predict(y, t) == Called(predict(gp, kernel, y, t))

\* gp.sample()
Sample == Called(sample(gp, kernel))

Next ==
  \/ \E x \in XArrays, yerr \in YerrArgs, sort \in BOOLEAN : Compute(x, yerr, sort)
  \/ \E v \in [1..len(kernel) -> LogVals] : AssignVector(v)
  \/ \E v \in [1..len(kernel) -> RawVals] : AssignPars(v)
  \/ \E i \in 1..len(kernel), v \in LogVals : AssignItem(i, v)
  \/ \E c \in 1..2, v \in SeqsOf(LogVals, 0, 1) : AssignChild(c, v)
  \/ \E quiet \in BOOLEAN : Recompute(quiet)
  \/ \E y \in YArrays, quiet \in BOOLEAN : LnLikelihood(y, quiet)
  \/ \E y \in YArrays, dims \in DimsArgs(kernel), quiet \in BOOLEAN :
       GradLnLikelihood(y, dims, quiet)
  \/ \E y \in YArrays, t \in TArrays : Predict(y, t)
  \/ Sample

Spec == Init /\ [][Next]_vars

(* ------------------------- the engine's claims ------------------------ *)
\* the factor and the constant g stores are those of the covariance of the
\* kernel k at the coordinates and noise g stores
Current(g, k) ==
  /\ g.hasfactor
  /\ Len(g.yerr) = Len(g.x)
  /\ g.factor = [chol |-> Covariance(k, g.x, g.yerr)]
  /\ g.const = [logdet |-> Covariance(k, g.x, g.yerr)]

\* C1: in every reachable state, whenever gp.computed is true the stored
\* factor and normalization constant were built from the stored _x, the
\* stored _yerr and the kernel's current parameters
C1_ComputedIsCurrent == computed(gp, kernel) => Current(gp, kernel)

\* C2: once a parameter of any node of the kernel expression was assigned,
\* gp.computed is false until the next compute or recompute that completes
C2_AssignmentClearsComputed == hist.stale => ~computed(gp, kernel)

\* the number of dimensions dims selects
NSelected(dims) ==
  IF dims.kind = "mask" THEN Len(MaskSelect(dims.v, dims.v, 1)) ELSE Len(dims.v)

\* what C3 says of a call's outcome o, when the factorization it needed failed
QuietOutcome(o, quiet, out) ==
  o.failed => /\ IF quiet THEN ~o.raised /\ o.out = out ELSE o.raised
              /\ ~computed(o.gp, o.kernel)

\* C3: when the factorization a call needs fails, quiet recompute returns
\* False, quiet lnlikelihood -inf and quiet grad_lnlikelihood a vector of
\* zeros with one entry per selected dimension; without quiet each raises;
\* and gp.computed is false afterwards
C3_QuietFailure ==
  \A quiet \in BOOLEAN :
    /\ QuietOutcome(Recomputed(gp, kernel, quiet), quiet, "False")
    /\ \A y \in YArrays :
         /\ QuietOutcome(lnlikelihood(gp, kernel, y, quiet), quiet, "-inf")
         /\ \A dims \in DimsArgs(kernel) :
              LET o == grad_lnlikelihood(gp, kernel, y, dims, quiet)
                  d == IF dims.kind = "none" THEN DefaultDims(kernel) ELSE dims
              IN  /\ QuietOutcome(o, quiet, "zeros")
                  /\ (o.failed /\ quiet) =>
                       /\ Len(o.res) = NSelected(d)
                       /\ \A i \in 1..Len(o.res) : o.res[i] = 0

\* C8: after compute(x, sort=True) on a 1-D input has returned, sample()
\* returns at each position i the draw generated for the input coordinate
\* x[i], whatever parameter changes and recomputes came between
C8_SampleInInputOrder ==
  (hist.computeok /\ hist.sort) =>
    LET o == sample(gp, kernel) IN
    ~o.raised => \A j \in 1..Len(o.gp.x) : o.res[hist.perm[j]] = o.gp.x[j]

(* ------------------------------ optimize ------------------------------ *)
\* the candidate vectors the minimizer may try
Candidates(dims) == [1..Len(dims) -> LogVals]

\* optimize after its compute call ended as c and dims was converted as d
OptStarted(c, y, sort, d) ==
  /\ gp' = c.gp
  /\ kernel' = c.kernel
  /\ hist' = ComputeHist(c, sort)
  /\ UNCHANGED gp2
  /\ opt' = IF c.raised \/ d.raised THEN [OptIdle EXCEPT !.pc = "raised"]
            ELSE [OptIdle EXCEPT !.pc = "minimize", !.y = y, !.dims = d.v,
                                 !.xk = Indexed(c.kernel, d.v)]

\* gp.optimize(x, y, yerr, sort, dims), up to the call of op.minimize
OptStart(x, y, yerr, sort, dims) ==
  /\ opt.pc = "idle"
  /\ OptStarted(compute(gp, kernel, x, yerr, sort), y, sort,
                optimize_dims(kernel, dims))

\* the effect of one evaluation e at the candidate p; adopt says whether the
\* minimizer makes p its iterate
Evaluated(e, p, adopt) ==
  /\ gp' = e.gp
  /\ kernel' = e.kernel
  /\ hist' = [hist EXCEPT !.stale = ~e.factorized]
  /\ UNCHANGED gp2
  /\ opt' = IF e.raised THEN [OptIdle EXCEPT !.pc = "raised"]
            ELSE [opt EXCEPT !.evaluated = TRUE, !.xk = IF adopt THEN p ELSE @]

\* the minimizer calls nll(p)
OptNll(p, adopt) ==
  /\ opt.pc = "minimize"
  /\ Evaluated(nll(gp, kernel, opt.y, opt.dims, p), p, adopt)

\* the minimizer calls grad_nll(p)
OptGradNll(p, adopt) ==
  /\ opt.pc = "minimize"
  /\ Evaluated(grad_nll(gp, kernel, opt.y, opt.dims, p), p, adopt)

\* op.minimize returns results with results.x = xk, and optimize returns
\* (self.kernel.vector[dims], results)
OptReturn ==
  /\ opt.pc = "minimize"
  /\ opt.evaluated
  /\ opt' = [opt EXCEPT !.pc = "done", !.pars = Indexed(kernel, opt.dims)]
  /\ UNCHANGED <<kernel, gp, hist, gp2>>

InitOptimize == Init

NextOptimize ==
  \/ \E x \in XArrays, y \in YArrays, yerr \in YerrArgs, sort \in BOOLEAN,
        dims \in DimsArgs(kernel) : OptStart(x, y, yerr, sort, dims)
  \/ \E p \in Candidates(opt.dims), adopt \in BOOLEAN : OptNll(p, adopt)
  \/ \E p \in Candidates(opt.dims), adopt \in BOOLEAN : OptGradNll(p, adopt)
  \/ OptReturn

SpecOptimize == InitOptimize /\ [][NextOptimize]_vars

\* the residual of the observations y, each paired with the stored
\* coordinate it was given for
Aligned(g, y) == [j \in 1..Len(g.x) |-> y[hist.perm[j]] - g.mean]

\* the evaluation e at p wrote p and used the factor of the covariance of
\* the kernel it left and the aligned observations
FromCandidate(e, p) ==
  /\ Indexed(e.kernel, opt.dims) = p
  /\ e.res.factor = [chol |-> Covariance(e.kernel, e.gp.x, e.gp.yerr)]
  /\ e.res.r = Aligned(e.gp, opt.y)

\* C6: inside optimize every evaluation of the objective or the gradient at
\* a candidate p writes p into the selected dimensions and computes its
\* value from the factorization of exactly those parameters and from the
\* observations aligned with the stored coordinates; the objective is the
\* penalty 1e25 exactly when the factorization fails or the likelihood is
\* not finite, the gradient is zeros exactly when the factorization fails
C6_EvaluationsUseCandidate ==
  opt.pc = "minimize" =>
    \A p \in Candidates(opt.dims) :
      LET f == nll(gp, kernel, opt.y, opt.dims, p)
          g == grad_nll(gp, kernel, opt.y, opt.dims, p)
          K == Covariance(f.kernel, f.gp.x, f.gp.yerr)
      IN  /\ ~f.raised =>
               /\ f.out \in {"1e25", "-ll"}
               /\ f.out = "1e25" <=>
                    (~PosDef(K) \/ ~FiniteLnlike(Aligned(f.gp, opt.y)))
               /\ f.out = "-ll" =>
                    FromCandidate(f, p) /\ f.res.const = [logdet |-> K]
          /\ ~g.raised =>
               /\ g.out \in {"zeros", "-gradient"}
               /\ g.out = "zeros" <=> ~PosDef(K)
               /\ g.out = "-gradient" => FromCandidate(g, p)

\* C7: when optimize returns, the parameters it returns are results.x, the
\* vector the minimizer found, and the kernel's selected parameters equal it
C7_ReturnsMinimizerResult ==
  opt.pc = "done" => opt.pars = opt.xk /\ Indexed(kernel, opt.dims) = opt.xk

(* --------------------------- kernel algebra --------------------------- *)
(* The kernel under study starts as any kernel a constructor call returns  *)
(* and is then combined with operands and assigned parameters.             *)
(***************************************************************************)
Flags == {"None", "True", "False"}
Ndims == 1..MaxNdim

\* the classes constructed: the ones without a metric, a radial class
\* without an extra parameter and the radial class with one
PlainTypes == {"ConstantKernel", "WhiteKernel", "DotProductKernel", "CosineKernel",
               "ExpSine2Kernel"}
RadialClasses == {"ExpSquaredKernel", "RationalQuadraticKernel"}

\* RationalQuadraticKernel passes extra=[alpha]
ExtraOf(type) == IF type = "RationalQuadraticKernel" THEN <<1>> ELSE <<>>

\* a metric argument of L entries (L = 0: a scalar) whose matrix is positive
\* definite wherever its length is accepted: the unit matrix
MetricArg(ndim, L) ==
  IF L = 0 THEN [scalar |-> TRUE, v |-> <<1>>]
  ELSE [scalar |-> FALSE,
        v |-> IF L = Tri(ndim) /\ L # ndim THEN DiagTri(ndim, [i \in 1..ndim |-> 1])
              ELSE [i \in 1..L |-> 1]]

MetricLens == 0..(Tri(MaxNdim) + 1)

RadialCalls ==
  [type : RadialClasses, ndim : Ndims, L : MetricLens, aa : Flags, iso : Flags]

\* the constructor call c of a radial class
Radial(c) ==
  RadialInit(c.type, MetricArg(c.ndim, c.L), c.ndim, ExtraOf(c.type), c.aa, c.iso)

\* the constructor call of a class without a metric, with parameters 1.0
Plain(type, ndim) ==
  KernelInit(type, IF type = "DotProductKernel" THEN <<>>
                   ELSE IF type = "ExpSine2Kernel" THEN <<1, 1>> ELSE <<1>>, ndim)

\* every kernel a constructor call returns
Constructed ==
  {Radial(c).k : c \in {d \in RadialCalls : ~Radial(d).raised}}
  \cup {Plain(t, n).k : t \in PlainTypes, n \in Ndims}

\* the other operand of + and *: the scalar 4.0, two leaves and a Sum
Operands ==
  {[scalar |-> TRUE, val |-> 4]}
  \cup {[scalar |-> FALSE, k |-> o] :
          o \in {Plain("DotProductKernel", 1).k, Plain("ConstantKernel", MaxNdim).k,
                 EngineKernel}}

RECURSIVE Leaves(_)
\* the number of leaves of an expression
Leaves(k) == IF IsOperator(k) THEN Leaves(k.k1) + Leaves(k.k2) ELSE 1

\* kernel + b, kernel * b, and with reversed b + kernel, b * kernel
combined(type, k, b, reversed) ==
  IF reversed /\ ~b.scalar THEN combine(type, b.k, [scalar |-> FALSE, k |-> k])
  ELSE combine(type, k, b)

\* kernel = kernel + b and the like, when the expression stays small and the
\* operator does not raise
Combine(type, b, reversed) ==
  /\ Leaves(kernel) + (IF b.scalar THEN 1 ELSE Leaves(b.k)) <= MaxLeaves
  /\ Len(pars(kernel)) + (IF b.scalar THEN 1 ELSE Len(pars(b.k))) <= MaxPars
  /\ ~combined(type, kernel, b, reversed).raised
  /\ kernel' = combined(type, kernel, b, reversed).node
  /\ UNCHANGED <<gp, hist, opt, gp2>>

InitKernel ==
  /\ kernel \in Constructed
  /\ gp = GPInit
  /\ hist = HistInit
  /\ opt = OptIdle
  /\ gp2 = GPInit

NextKernel ==
  \/ \E type \in OperatorTypes, b \in Operands, reversed \in BOOLEAN :
       Combine(type, b, reversed)
  \/ \E v \in [1..len(kernel) -> LogVals] : AssignVector(v)
  \/ \E v \in [1..Len(pars(kernel)) -> RawVals] : AssignPars(v)
  \/ \E i \in 1..len(kernel), v \in LogVals : AssignItem(i, v)

SpecKernel == InitKernel /\ [][NextKernel]_vars

(* ---------------------- the kernel algebra's claims ------------------- *)
\* the masks of length len(k)
Masks(k) == {[kind |-> "mask", v |-> m] : m \in [1..len(k) -> 0..1]}

\* C4: for every kernel, grad has exactly len(kernel) slices, slice i being
\* the derivative with respect to entry i of kernel.vector (so in a
\* composite the slices of k1 come first, then those of k2), and indexing
\* the gradient by a mask of length len(kernel) selects the matching
\* parameters
C4_GradAlignedWithVector ==
  /\ Len(grad(kernel, <<>>)) = len(kernel)
  /\ grad(kernel, <<>>) = VectorEntries(kernel, <<>>)
  /\ \A dims \in Masks(kernel) :
       /\ ~SelectRaises(grad(kernel, <<>>), dims)
       /\ Select(grad(kernel, <<>>), dims) = Select(VectorEntries(kernel, <<>>), dims)

\* what C5 says of the assignment r of the vector v to the composite k
SplitAtK1(k, r, v) ==
  ~r.raised =>
    /\ vector(r.k) = v
    /\ vector(r.k.k1) = Head0(v, len(k.k1))
    /\ vector(r.k.k2) = Tail0(v, len(k.k1))

\* C5: for a Sum or Product, len is len(k1) + len(k2), vector is k1.vector
\* followed by k2.vector, and assigning a whole vector or a single index
\* changes exactly the corresponding entries of the children, split at
\* len(k1): vector reads back what was assigned and the other entries keep
\* their values
C5_CompositeVector ==
  IsOperator(kernel) =>
    /\ len(kernel) = len(kernel.k1) + len(kernel.k2)
    /\ vector(kernel) = vector(kernel.k1) \o vector(kernel.k2)
    /\ \A v \in [1..len(kernel) -> LogVals] :
         SplitAtK1(kernel, vector_setter(kernel, v), v)
    /\ \A i \in 1..len(kernel), a \in LogVals :
         SplitAtK1(kernel, setitem(kernel, <<i>>, <<a>>),
                   [vector(kernel) EXCEPT ![i] = a])

\* a composite of three leaves whose vector was assigned
C5_Witness ==
  /\ IsOperator(kernel)
  /\ IsOperator(kernel.k2)
  /\ hist.stale
  /\ vector(kernel.k1) = <<NegInf>>
  /\ vector(kernel.k2) = <<0, NegInf>>

\* the number of metric entries of a radial kernel's vector tells its
\* parameterization, as does the length of a metric
ParameterizationOf(ndim, n) ==
  IF n = 1 THEN "isotropic" ELSE IF n = ndim THEN "axis-aligned" ELSE "full"

\* C9 for one call: a metric of n entries given to a radial kernel of
\* dimension ndim with the flags iso and aa, ending as r
MetricChecked(r, ndim, n, iso, aa) ==
  IF \/ n \notin {1, ndim, Tri(ndim)}
     \/ (n # 1 /\ iso = "True")
     \/ (n = Tri(ndim) /\ n # ndim /\ aa = "True")
  THEN r.raised
  ELSE /\ ~r.raised
       /\ ParameterizationOf(ndim, len(r.k) - r.k.nextra) = ParameterizationOf(ndim, n)

\* C9: constructing a radial kernel of dimension ndim >= 1 or assigning its
\* vector with a metric of L entries raises whenever L is none of 1, ndim and
\* ndim (ndim + 1) / 2, whenever L is not 1 while isotropic is true and
\* whenever L is the triangular count (and not ndim) while axis_aligned is
\* true; every other metric is accepted and gives the parameterization that
\* L selects
C9_MetricLengthChecked ==
  /\ \A c \in RadialCalls :
       MetricChecked(Radial(c), c.ndim, IF c.L = 0 THEN 1 ELSE c.L, c.iso, c.aa)
  /\ IsRadial(kernel) =>
       \A n \in 1..(Tri(MaxNdim) + 1) :
         MetricChecked(
           vector_setter(kernel, LogSeq(ExtraOf(kernel.type) \o MetricArg(kernel.ndim, n).v)),
           kernel.ndim, n, kernel.isotropic, kernel.axis_aligned)

\* the parameters, ndim and dirty flag of the operand a are those of b
SameOperand(a, b) == pars(a) = pars(b) /\ a.ndim = b.ndim /\ a.dirty = b.dirty

\* what C10 says of the call r that combines k1 and k2
NdimChecked(r, type, k1, k2) ==
  /\ r.raised <=> k1.ndim # k2.ndim
  /\ ~r.raised => r.node.type = type /\ r.node.ndim = k1.ndim
  /\ SameOperand(r.k1, k1) /\ SameOperand(r.k2, k2)

\* C10: building a Sum or Product from k1 and k2, directly or through + and
\* *, raises when k1.ndim # k2.ndim and otherwise returns a new node of that
\* ndim; a scalar operand is wrapped as a constant kernel of the other
\* operand's ndim; in no case are an operand's parameters, ndim or dirty
\* flag changed
C10_CombineChecksNdim ==
  \A type \in OperatorTypes, b \in Operands :
    IF b.scalar
    THEN LET r == combine(type, kernel, b) IN
         /\ ~r.raised
         /\ r.node.type = type /\ r.node.ndim = kernel.ndim
         /\ r.node.k1.type = "ConstantKernel" /\ r.node.k1.ndim = kernel.ndim
         /\ r.node.k2 = kernel
         /\ SameOperand(r.self, kernel)
    ELSE /\ NdimChecked(operator_init(type, kernel, b.k), type, kernel, b.k)
         /\ NdimChecked(operator_init(type, b.k, kernel), type, b.k, kernel)
         /\ LET r == combine(type, kernel, b) IN
            /\ r.raised <=> kernel.ndim # b.k.ndim
            /\ ~r.raised => r.node = operator_init(type, kernel, b.k).node
            /\ SameOperand(r.self, kernel) /\ SameOperand(r.other, b.k)

\* the product of the scalar 4.0 and a kernel of the largest dimension, which
\* no operand of dimension 1 combines with
C10_Witness ==
  /\ kernel.type = "Product"
  /\ kernel.ndim = MaxNdim
  /\ kernel.k1.type = "ConstantKernel" /\ kernel.k1.pars = <<2>> /\ kernel.k1.ndim = MaxNdim
  /\ IsRadial(kernel.k2)
  /\ \E b \in Operands : ~b.scalar /\ combine("Sum", kernel, b).raised

(* ------------------- evaluation of sums and products ------------------ *)
\* the points of dimension ndim with coordinates in Coords
Points(ndim) == [1..ndim -> Coords]

RECURSIVE IntegerTree(_)
\* every leaf of k is a ConstantKernel, a WhiteKernel or a DotProductKernel
IntegerTree(k) ==
  IF IsOperator(k) THEN IntegerTree(k.k1) /\ IntegerTree(k.k2)
  ELSE k.type \in {"ConstantKernel", "WhiteKernel", "DotProductKernel"}

RECURSIVE SumProductRule(_, _, _)
\* at the node k and at every node below it, the value and the gradient at
\* the points a and b are the sum, or the product and the product rule, of
\* the children's
SumProductRule(k, a, b) ==
  IsOperator(k) =>
    /\ SumProductRule(k.k1, a, b)
    /\ SumProductRule(k.k2, a, b)
    /\ k.type = "Sum" =>
         /\ value(k, a, b) = value(k.k1, a, b) + value(k.k2, a, b)
         /\ grad_value(k, a, b) = grad_value(k.k1, a, b) \o grad_value(k.k2, a, b)
    /\ k.type = "Product" =>
         /\ Unit * value(k, a, b) = value(k.k1, a, b) * value(k.k2, a, b)
         /\ Len(grad_value(k, a, b)) = Len(grad_value(k.k1, a, b)) + Len(grad_value(k.k2, a, b))
         /\ \A i \in 1..Len(grad_value(k, a, b)) :
              Unit * grad_value(k, a, b)[i] =
                IF i <= Len(grad_value(k.k1, a, b))
                THEN grad_value(k.k1, a, b)[i] * value(k.k2, a, b)
                ELSE grad_value(k.k2, a, b)[i - Len(grad_value(k.k1, a, b))]
                       * value(k.k1, a, b)

\* C11: at every pair of points, Sum(k1, k2) evaluates to k1 + k2 and its
\* gradient is k1's slices followed by k2's; Product(k1, k2) evaluates to
\* k1 * k2 and its gradient is grad(k1) * k2 followed by grad(k2) * k1; and
\* so at every node of a nested composite
C11_SumProductEvaluation ==
  (IsOperator(kernel) /\ IntegerTree(kernel)) =>
    /\ \A a, b \in Points(kernel.ndim) : SumProductRule(kernel, a, b)
    /\ \A a, b \in Points(kernel.ndim) :
         call(kernel, <<a, b>>, <<b, a>>)[1][2] = value(kernel, a, a)

\* a product whose second operand is a sum, with a gradient that is not zero
C11_Witness ==
  /\ kernel.type = "Product"
  /\ IntegerTree(kernel)
  /\ kernel.k2.type = "Sum"
  /\ hist.stale
  /\ \A i \in 1..Len(grad_value(kernel, <<0>>, <<0>>)) :
       grad_value(kernel, <<0>>, <<0>>)[i] > 0

\* C12: WhiteKernel(c) returns c squared at entry (i, j) exactly when x1[i]
\* and x2[j] are equal in every component and 0 at every other entry;
\* WhiteKernel(1.0) on x1 = [0, 1], x2 = [0, 1] gives [[1, 0], [0, 1]] and
\* on x1 = [0], x2 = [1] gives [[0]]
C12_WhiteKernelValues ==
  /\ kernel.type = "WhiteKernel" =>
       \A a, b \in Points(kernel.ndim) :
         call(kernel, <<a>>, <<b>>) =
           <<<<IF a = b THEN Unit * kernel.pars[1] * kernel.pars[1] ELSE 0>>>>
  /\ call(White1, <<<<0>>, <<1>>>>, <<<<0>>, <<1>>>>) = <<<<Unit, 0>>, <<0, Unit>>>>
  /\ call(White1, <<<<0>>>>, <<<<1>>>>) = <<<<0>>>>

\* a white kernel of the largest dimension with the parameter 1.0 assigned
C12_Witness ==
  /\ kernel.type = "WhiteKernel"
  /\ kernel.ndim = MaxNdim
  /\ hist.stale
  /\ kernel.pars = <<1>>

(* ------------------------------ tutorial ------------------------------ *)
(* The engine of the tutorial: a GP over a * Matern32Kernel(tau) + c,       *)
(* computed on sorted distinct 1-D coordinates with positive noise.         *)
(***************************************************************************)
\* a * Matern32Kernel(tau) + c
TutorialKernel(a, tau, c) ==
  combine("Sum",
          combine("Product",
                  RadialInit("Matern32Kernel", [scalar |-> TRUE, v |-> <<tau>>], 1,
                             <<>>, "None", "None").k,
                  [scalar |-> TRUE, val |-> a]).node,
          [scalar |-> TRUE, val |-> c]).node

\* the positive scalars a and c (np.sqrt of them is stored) and tau
Amplitudes == {1, 4}
Scales == {1, 2}

\* sorted 1-D arrays of distinct coordinates
SortedArrays ==
  {t \in XArrays : t.nd = 1 /\ \A i, j \in 1..Len(t.data) :
                                 i < j => t.data[i][1] < t.data[j][1]}

\* strictly positive noise: the scalar 1 and the vectors <<2, 1, 2, ...>>
PositiveYerr ==
  {[scalar |-> TRUE, v |-> <<1>>]}
  \cup {[scalar |-> FALSE, v |-> [i \in 1..n |-> 1 + (i % 2)]] : n \in 2..MaxN}

InitTutorial ==
  /\ kernel \in {TutorialKernel(a, tau, c) : a \in Amplitudes, tau \in Scales,
                                             c \in Amplitudes}
  /\ gp = GPInit
  /\ hist = HistInit
  /\ opt = OptIdle
  /\ gp2 = GPInit

NextTutorial ==
  \/ \E x \in SortedArrays, yerr \in PositiveYerr, sort \in BOOLEAN : Compute(x, yerr, sort)
  \/ \E i \in 1..len(kernel), v \in 0..MaxLog : AssignItem(i, v)
  \/ \E y \in YArrays, quiet \in BOOLEAN : LnLikelihood(y, quiet)

SpecTutorial == InitTutorial /\ [][NextTutorial]_vars

\* what lnlikelihood(y) returns in the engine's state when it uses the
\* stored factorization: out is the kind of result
UsesStoredFactor(y, out) ==
  LET o == lnlikelihood(gp, kernel, y, FALSE) IN
  /\ ~o.raised
  /\ o.out = out
  /\ ~o.factorized
  /\ o.gp = gp /\ o.kernel = kernel
  /\ out = "finite" =>
       /\ o.res.factor = [chol |-> Covariance(kernel, gp.x, gp.yerr)]
       /\ o.res.const = [logdet |-> Covariance(kernel, gp.x, gp.yerr)]

\* the observations of the engine's length
Observations == {y \in YArrays : Len(y) = Len(gp.x)}

\* C13 as stated: after compute on sorted distinct 1-D coordinates with
\* strictly positive noise, lnlikelihood(y) returns a finite number for
\* every finite y of the same length, without raising and without a second
\* factorization
C13_FiniteForFiniteObservations ==
  (hist.computeok /\ ~hist.stale) =>
    \A y \in Observations : UsesStoredFactor(y, "finite")

\* C13, amended: after compute on sorted distinct 1-D coordinates with
\* strictly positive noise, lnlikelihood(y) neither raises nor factorizes a
\* second time; it returns a finite number when the likelihood of y is
\* within floating-point range and negative infinity when it overflows
C13_FiniteUnlessOverflow ==
  (hist.computeok /\ ~hist.stale) =>
    \A y \in Observations :
      UsesStoredFactor(y, IF FiniteLnlike(Residual(gp, y)) THEN "finite" ELSE "-inf")

\* the engine of 4.0 * Matern32Kernel(tau) + c, computed on two points
C13_Witness ==
  /\ hist.computeok /\ ~hist.stale
  /\ computed(gp, kernel)
  /\ Len(gp.x) = 2
  /\ kernel.k2.k1.pars = <<2>>
  /\ kernel.k2.k2.type = "Matern32Kernel"

(* ----------------------- gradient and derivative --------------------- *)
(* The value of a tree of ConstantKernel, WhiteKernel and DotProductKernel *)
(* leaves is a polynomial in which the parameter c of a leaf occurs as     *)
(* c ** 2 and in one place, so its derivative with respect to log(c) is     *)
(* twice the part of the value that vanishes with c.                       *)
(***************************************************************************)
\* the derivative of k(a, b) with respect to entry i of k.vector
Derivative(k, i, a, b) ==
  2 * (value(k, a, b) - value(pars_setter(k, [pars(k) EXCEPT ![i] = 0]).k, a, b))

\* C14: each slice of the gradient returned by grad is the derivative of
\* the kernel's evaluation with respect to the corresponding entry of
\* kernel.vector
C14_GradientIsDerivative ==
  IntegerTree(kernel) =>
    \A a, b \in Points(kernel.ndim) :
      \A i \in 1..Len(grad_value(kernel, a, b)) :
        /\ i <= len(kernel)
        /\ grad_value(kernel, a, b)[i] = Derivative(kernel, i, a, b)

(* ----------------------- recompute and compute ------------------------ *)
\* C15: after compute(x, yerr, sort=True) has stored the permutation p, every
\* later recompute, whether it succeeds, returns False or raises, leaves
\* gp.inds equal to p and the stored coordinates and noise as they are, so
\* that lnlikelihood pairs observation y[p[j]] with stored coordinate j
C15_RecomputeKeepsOrder ==
  (hist.computeok /\ hist.sort) =>
    /\ gp.inds = hist.perm
    /\ \A quiet \in BOOLEAN :
         /\ Recomputed(gp, kernel, quiet).gp.inds = hist.perm
         /\ Recomputed(gp, kernel, quiet).gp.x = gp.x
         /\ Recomputed(gp, kernel, quiet).gp.yerr = gp.yerr
         /\ \A y \in YArrays :
              lnlikelihood(gp, kernel, y, quiet).out = "finite" =>
                lnlikelihood(gp, kernel, y, quiet).res.r
                  = Aligned(lnlikelihood(gp, kernel, y, quiet).gp, y)

\* the call with the outcome o returned without factorizing and left the
\* engine and its kernel as they are
NoOp(o) == ~o.factorized /\ o.gp = gp /\ o.kernel = kernel

\* C16: when gp.computed is true, recompute (with either value of quiet)
\* returns True without factorizing and leaves the stored coordinates,
\* noise, permutation, factor, constant and the kernel's dirty flag
\* unchanged, and so does the recompute at the start of lnlikelihood,
\* grad_lnlikelihood, predict and sample()
C16_RecomputeNoOpWhenComputed ==
  computed(gp, kernel) =>
    /\ \A quiet \in BOOLEAN :
         /\ Recomputed(gp, kernel, quiet).out = "True"
         /\ NoOp(Recomputed(gp, kernel, quiet))
         /\ \A y \in YArrays :
              /\ NoOp(lnlikelihood(gp, kernel, y, quiet))
              /\ \A dims \in DimsArgs(kernel) :
                   NoOp(grad_lnlikelihood(gp, kernel, y, dims, quiet))
    /\ \A y \in YArrays, t \in TArrays : NoOp(predict(gp, kernel, y, t))
    /\ NoOp(sample(gp, kernel)) /\ ~sample(gp, kernel).raised

\* a computed engine that holds a sorting permutation and the factor of
\* parameters assigned after construction
C16_Witness ==
  /\ computed(gp, kernel)
  /\ hist.computeok /\ hist.sort
  /\ gp.inds = <<2, 1>>
  /\ pars(kernel) = <<0, 1>>
  /\ Current(gp, kernel)

(* --------------------------- derived state ---------------------------- *)
RECURSIVE DerivedCurrent(_)
\* the derived state of every leaf of k is the one of its stored raw
\* parameters: the metric matrix and the matrix its factor was computed
\* from, the metric of ivar, the period of _omega
DerivedCurrent(k) ==
  IF IsOperator(k) THEN DerivedCurrent(k.k1) /\ DerivedCurrent(k.k2)
  ELSE IF IsRadial(k) /\ k.ndim > 1
       THEN /\ Len(k.pars) - k.nextra \in {1, Tri(k.ndim)}
            /\ k.matrix = build_matrix(k.ndim, Tail0(k.pars, k.nextra))
            /\ k.derived = k.matrix
  ELSE IF IsRadial(k)
       THEN Len(k.pars) > k.nextra /\ k.derived = <<k.pars[k.nextra + 1]>>
  ELSE IF k.type = "CosineKernel"
       THEN Len(k.pars) = 1 /\ k.derived = <<k.pars[1]>>
  ELSE IF k.type = "ExpSine2Kernel"
       THEN Len(k.pars) = 2 /\ k.derived = <<k.pars[2]>>
  ELSE TRUE

\* the kernel as an engine that has computed leaves it: not dirty
Clean(k) == [k EXCEPT !.dirty = FALSE]

\* what C17 says of the assignment to the kernel k that ended as r
Rebuilt(k, r) ==
  /\ DerivedCurrent(r.k)
  /\ pars(r.k) # pars(k) => r.k.dirty

\* C17: after every assignment to a kernel's raw parameters or vector,
\* whether it completes or raises, the derived state corresponds to the
\* stored raw parameters and the dirty flag is set whenever the stored raw
\* parameters were changed
C17_DerivedStateRebuilt ==
  /\ DerivedCurrent(kernel)
  /\ \A v \in [1..Len(pars(kernel)) -> RawVals] :
       Rebuilt(Clean(kernel), pars_setter(Clean(kernel), v))
  /\ \A v \in [1..len(kernel) -> LogVals] :
       Rebuilt(Clean(kernel), vector_setter(Clean(kernel), v))


(* ------------------- two engines over one kernel object --------------- *)
\* GP(kernel) twice with the same kernel object: gp and gp2 both hold kernel,
\* and each stores its own _computed, _x, _yerr, inds, factor and constant
\* noise that keeps every covariance positive definite
UnitYerr == [scalar |-> TRUE, v |-> <<1>>]
LineArrays == {x \in XArrays : x.nd = 1}

\* the effect of a call on the second engine
Called2(o) ==
  /\ gp2' = o.gp
  /\ kernel' = o.kernel
  /\ UNCHANGED <<gp, hist, opt>>

\* gp2.compute(x, yerr, sort)
Compute2(x, yerr, sort) == Called2(compute(gp2, kernel, x, yerr, sort))

\* gp2.recompute(quiet)
Recompute2(quiet) == Called2(Recomputed(gp2, kernel, quiet))

\* gp2.lnlikelihood(y, quiet)
LnLikelihood2(y, quiet) == Called2(lnlikelihood(gp2, kernel, y, quiet))

InitShared == Init

NextShared ==
  \/ \E x \in LineArrays, sort \in BOOLEAN : Compute(x, UnitYerr, sort)
  \/ \E x \in LineArrays, sort \in BOOLEAN : Compute2(x, UnitYerr, sort)
  \/ \E v \in [1..len(kernel) -> LogVals] : AssignVector(v)
  \/ \E quiet \in BOOLEAN : Recompute(quiet)
  \/ \E quiet \in BOOLEAN : Recompute2(quiet)
  \/ \E y \in YArrays, quiet \in BOOLEAN : LnLikelihood(y, quiet)
  \/ \E y \in YArrays, quiet \in BOOLEAN : LnLikelihood2(y, quiet)

SpecShared == InitShared /\ [][NextShared]_vars

\* the engine g reports computed, or answers lnlikelihood from its stored
\* factor, only when that factor is the one of the kernel's parameters
StoredFactorCurrent(g) ==
  /\ computed(g, kernel) => Current(g, kernel)
  /\ \A y \in YArrays :
       (/\ lnlikelihood(g, kernel, y, TRUE).out = "finite"
        /\ ~lnlikelihood(g, kernel, y, TRUE).factorized) => Current(g, kernel)

\* C18: when two engines hold the same kernel object, after the kernel's
\* parameters change and one engine re-factorizes, the other engine does not
\* report computed and does not use its stored factor while that factor was
\* built from the previous parameter values
C18_SharedKernelEngines == StoredFactorCurrent(gp) /\ StoredFactorCurrent(gp2)


(* ------------------------ a compute that raises ----------------------- *)
\* the engine and its computed status after the compute call c are those
\* before it
EngineKept(c) ==
  /\ c.gp = gp
  /\ computed(c.gp, c.kernel) = computed(gp, kernel)

\* C19: a compute call that raises (coordinates that do not match the
\* kernel's ndim, a noise vector of the wrong length, a factorization that
\* fails) leaves the stored coordinates, noise, permutation, factor,
\* normalization constant and computed status as they were before the call
C19_RaisingComputeKeepsEngine ==
  \A x \in XArrays, yerr \in YerrArgs, sort \in BOOLEAN :
    compute(gp, kernel, x, yerr, sort).raised
      => EngineKept(compute(gp, kernel, x, yerr, sort))


(* ------------------- raw parameters of a composite -------------------- *)
\* the composite after composite.pars = composite.pars
ParsReassigned(k) == pars_setter(k, pars(k)).k

\* C20: for any Sum or Product, composite.pars = composite.pars leaves every
\* child's raw parameters unchanged, also when the first child's raw
\* parameter count differs from its log-parameter count
C20_ParsRoundTrip ==
  IsOperator(kernel) =>
    /\ pars(ParsReassigned(kernel).k1) = pars(kernel.k1)
    /\ pars(ParsReassigned(kernel).k2) = pars(kernel.k2)

=============================================================================
